---- MODULE Spec2Model ----
(***************************************************************************)
(* Model of src/app.py, the Luanta Jira analytics dashboard: a Streamlit   *)
(* script that runs top to bottom on every interaction.  One run loads a   *)
(* table (df), detects the columns of the canonical fields, and computes   *)
(* the metric sections in source order.  An uncaught exception ends the    *)
(* run (pc = "crashed").                                                   *)
(*                                                                         *)
(* Text is a sequence of one-character strings, so that str.lower(), the   *)
(* substring test `kw in c` and numeric parsing are computed, not assumed. *)
(* Numbers are exact rationals <<numerator, denominator>>; pandas computes *)
(* in binary floating point, which the rationals abstract.                 *)
(***************************************************************************)
EXTENDS Integers, Sequences, FiniteSets, TLC

VARIABLES
    df,                 \* the loaded table: [cols |-> names, rows |-> rows of cells]
    pc,                 \* position of the script run
    clicked,            \* st.button(...) of this run (line 556)
    clock,              \* the wall clock (environment), in seconds
    col,                \* the detected columns, lines 200-215
    p0_count,           \* line 232
    avg_delay_val,      \* line 239
    avg_delay,          \* line 237
    perf_df,            \* line 267
    q_df,               \* line 347
    now_utc,            \* lines 351, 386, 586: the last value read
    threshold,          \* line 389
    stale_df,           \* line 381
    sla_df,             \* line 433
    sla_breach_rate,    \* line 434
    rc_df,              \* line 496
    blocked_df,         \* line 519
    bullets,            \* line 557
    cell,               \* a raw cell handed to pd.to_numeric
    parsed              \* what pd.to_numeric(..., errors="coerce") made of it

vars == <<df, pc, clicked, clock, col, p0_count, avg_delay_val, avg_delay,
          perf_df, q_df, now_utc, threshold, stale_df, sla_df,
          sla_breach_rate, rc_df, blocked_df, bullets, cell, parsed>>

-----------------------------------------------------------------------------
(* Values *)

\* Values of different kinds are told apart by their length as tuples: a text
\* is a tuple of characters, a number a pair of integers, a marker a 1-tuple.

\* Python's None: an undetected column, an unset sla_breach_rate
None == <<"None">>
\* pandas' missing value: an empty CSV cell, a coerced unparsable cell (NaN/NaT)
NaN == <<"NaN">>
\* the "N/A" shown for a metric without data (lines 232, 237)
NA == <<"N/A">>
\* a variable the run has not assigned
Unset == <<"unset">>
\* a Python int
PyInt(k) == <<"int", k>>

Min(S) == CHOOSE x \in S : \A y \in S : x <= y

-----------------------------------------------------------------------------
(* Text *)

UpperChars == <<"A","B","C","D","E","F","G","H","I","J","K","L","M",
                "N","O","P","Q","R","S","T","U","V","W","X","Y","Z">>
LowerChars == <<"a","b","c","d","e","f","g","h","i","j","k","l","m",
                "n","o","p","q","r","s","t","u","v","w","x","y","z">>
DigitChars == <<"0","1","2","3","4","5","6","7","8","9">>

\* the characters of the model's texts, in code-point order
CharOrder == <<" ", "%", ".">> \o DigitChars \o UpperChars \o <<"_">> \o LowerChars

IndexIn(seq, x) == CHOOSE i \in 1..Len(seq) : seq[i] = x
IsIn(seq, x) == \E i \in 1..Len(seq) : seq[i] = x

\* str.lower() of one character
LowerMap ==
    [ch \in {CharOrder[i] : i \in 1..Len(CharOrder)} |->
        IF IsIn(UpperChars, ch) THEN LowerChars[IndexIn(UpperChars, ch)] ELSE ch]
LowerChar(ch) == LowerMap[ch]

\* str.lower()
Lower(s) == [i \in 1..Len(s) |-> LowerChar(s[i])]

\* `sub in s` of two Python strings
Contains(sub, s) ==
    \E i \in 1..(Len(s) - Len(sub) + 1) : SubSeq(s, i, i + Len(sub) - 1) = sub

\* s < t of two Python strings (code-point order), as groupby sorts its keys
StrLess(s, t) ==
    \E i \in 1..(Len(t)) :
        /\ i <= Len(s) + 1
        /\ SubSeq(s, 1, i - 1) = SubSeq(t, 1, i - 1)
        /\ \/ i = Len(s) + 1
           \/ /\ i <= Len(s)
              /\ IndexIn(CharOrder, s[i]) < IndexIn(CharOrder, t[i])

-----------------------------------------------------------------------------
(* Column detection, lines 136-142 and 200-215 *)

Priority_name == <<"P","r","i","o","r","i","t","y">>
Role_name == <<"R","o","l","e">>
Status_Current_name == <<"S","t","a","t","u","s","_","C","u","r","r","e","n","t">>
Last_Updated_Date_name == <<"L","a","s","t","_","U","p","d","a","t","e","d","_","D","a","t","e">>
Status_Entered_Date_name == <<"S","t","a","t","u","s","_","E","n","t","e","r","e","d","_","D","a","t","e">>
Issue_Key_name == <<"I","s","s","u","e","_","K","e","y">>
Summary_name == <<"S","u","m","m","a","r","y">>
Assignee_name == <<"A","s","s","i","g","n","e","e">>
Blocked_Reason_name == <<"B","l","o","c","k","e","d","_","R","e","a","s","o","n">>
Root_Cause_Category_name == <<"R","o","o","t","_","C","a","u","s","e","_","C","a","t","e","g","o","r","y">>
SLA_Breached_name == <<"S","L","A","_","B","r","e","a","c","h","e","d">>
Resolution_Days_name == <<"R","e","s","o","l","u","t","i","o","n","_","D","a","y","s">>
SLA_Target_Days_name == <<"S","L","A","_","T","a","r","g","e","t","_","D","a","y","s">>

delay_kw ==
    << <<"d","e","l","a","y","_","r","a","t","e">>,
       <<"d","e","l","a","y">>,
       <<"d","e","l","a","y","_","r","a","t","e","_","%">> >>
priority_kw ==
    << <<"p","r","i","o","r","i","t","y">> >>
role_kw ==
    << <<"r","o","l","e">>,
       <<"t","e","a","m">> >>
status_kw ==
    << <<"s","t","a","t","u","s","_","c","u","r","r","e","n","t">>,
       <<"s","t","a","t","u","s">> >>
last_updated_kw ==
    << <<"l","a","s","t","_","u","p","d","a","t","e","d">>,
       <<"u","p","d","a","t","e","d">> >>
status_entered_kw ==
    << <<"s","t","a","t","u","s","_","e","n","t","e","r","e","d">>,
       <<"e","n","t","e","r","e","d","_","d","a","t","e">> >>
issue_key_kw ==
    << <<"i","s","s","u","e","_","k","e","y">>,
       <<"k","e","y">> >>
summary_kw ==
    << <<"s","u","m","m","a","r","y">>,
       <<"t","i","t","l","e">> >>
assignee_kw ==
    << <<"a","s","s","i","g","n","e","e">>,
       <<"o","w","n","e","r">> >>
blocked_reason_kw ==
    << <<"b","l","o","c","k","e","d","_","r","e","a","s","o","n">>,
       <<"b","l","o","c","k","_","r","e","a","s","o","n">>,
       <<"b","l","o","c","k","e","d">> >>
root_cause_kw ==
    << <<"r","o","o","t","_","c","a","u","s","e">>,
       <<"c","a","u","s","e">> >>
sla_breached_kw ==
    << <<"s","l","a","_","b","r","e","a","c","h","e","d">>,
       <<"b","r","e","a","c","h">> >>
resolution_days_kw ==
    << <<"r","e","s","o","l","u","t","i","o","n","_","d","a","y","s">>,
       <<"r","e","s","o","l","u","t","i","o","n","_","t","i","m","e","_","d","a","y","s">>,
       <<"r","e","s","o","l","u","t","i","o","n">> >>
sla_target_kw ==
    << <<"s","l","a","_","t","a","r","g","e","t","_","d","a","y","s">>,
       <<"s","l","a","_","d","a","y","s">>,
       <<"s","l","a","_","t","a","r","g","e","t">> >>

\* `name in df.columns`
InColumns(name, cols) == IsIn(cols, name)

\* a first match that returns the lower-cased text it compared instead of the
\* column itself
safe_first_match_lowered(cols, keyword_list) ==
    LET lc == [c \in 1..Len(cols) |-> Lower(cols[c])]
        lk == [k \in 1..Len(keyword_list) |-> Lower(keyword_list[k])]
        kws == {k \in 1..Len(lk) : \E c \in 1..Len(lc) : Contains(lk[k], lc[c])}
    IN  IF kws = {} THEN None
        ELSE LET k == Min(kws)
             IN  lc[Min({c \in 1..Len(lc) : Contains(lk[k], lc[c])})]

\* def safe_first_match(cols, keyword_list): the keywords in list order, and
\* for each keyword the columns in table order; the first hit is returned
safe_first_match(cols, keyword_list) ==
    LET lc == [c \in 1..Len(cols) |-> Lower(cols[c])]
        lk == [k \in 1..Len(keyword_list) |-> Lower(keyword_list[k])]
        kws == {k \in 1..Len(lk) : \E c \in 1..Len(lc) : Contains(lk[k], lc[c])}
    IN  IF kws = {} THEN None
        ELSE LET k == Min(kws)
             IN  cols[Min({c \in 1..Len(lc) : Contains(lk[k], lc[c])})]

\* `"X" if "X" in df.columns else safe_first_match(df.columns, [...])`
ExactOrMatch(cols, name, keyword_list) ==
    IF InColumns(name, cols) THEN name ELSE safe_first_match(cols, keyword_list)

\* the fourteen assignments of lines 200-215
DetectColumns(cols) ==
    [ delay_col           |-> safe_first_match(cols, delay_kw),
      priority_col        |-> ExactOrMatch(cols, Priority_name, priority_kw),
      role_col            |-> ExactOrMatch(cols, Role_name, role_kw),
      status_col          |-> ExactOrMatch(cols, Status_Current_name, status_kw),
      last_updated_col    |-> ExactOrMatch(cols, Last_Updated_Date_name, last_updated_kw),
      status_entered_col  |-> ExactOrMatch(cols, Status_Entered_Date_name, status_entered_kw),
      issue_key_col       |-> ExactOrMatch(cols, Issue_Key_name, issue_key_kw),
      summary_col         |-> ExactOrMatch(cols, Summary_name, summary_kw),
      assignee_col        |-> ExactOrMatch(cols, Assignee_name, assignee_kw),
      blocked_reason_col  |-> ExactOrMatch(cols, Blocked_Reason_name, blocked_reason_kw),
      root_cause_col      |-> ExactOrMatch(cols, Root_Cause_Category_name, root_cause_kw),
      sla_breached_col    |-> ExactOrMatch(cols, SLA_Breached_name, sla_breached_kw),
      resolution_days_col |-> ExactOrMatch(cols, Resolution_Days_name, resolution_days_kw),
      sla_target_col      |-> ExactOrMatch(cols, SLA_Target_Days_name, sla_target_kw) ]

Fields == DOMAIN DetectColumns(<<>>)

\* `x_col and x_col in df.columns`
Resolved(c, cols) == c # None /\ InColumns(c, cols)

-----------------------------------------------------------------------------
(* Numbers: exact rationals <<numerator, denominator>>, denominator > 0,    *)
(* standing for the floats of the program                                   *)

RECURSIVE Gcd(_, _)
Gcd(a, b) == IF b = 0 THEN a ELSE Gcd(b, a % b)
Abs(n) == IF n < 0 THEN -n ELSE n

\* in lowest terms
Rat(n, d) == LET g == Gcd(Abs(n), d) IN <<n \div g, d \div g>>
RatEq(a, b) == a[1] * b[2] = b[1] * a[2]
RatLess(a, b) == a[1] * b[2] < b[1] * a[2]
RatAdd(a, b) == Rat(a[1] * b[2] + b[1] * a[2], a[2] * b[2])

RECURSIVE RatSum(_)
RatSum(seq) == IF seq = <<>> THEN Rat(0, 1) ELSE RatAdd(seq[1], RatSum(Tail(seq)))

RECURSIVE Pow10(_)
Pow10(k) == IF k = 0 THEN 1 ELSE 10 * Pow10(k - 1)

\* the elements of seq that satisfy Keep, in order
RECURSIVE SelectIdx(_, _)
SelectIdx(n, keep) ==
    IF n = 0 THEN <<>>
    ELSE IF keep[n] THEN Append(SelectIdx(n - 1, keep), n) ELSE SelectIdx(n - 1, keep)

\* a mean that lets a missing value count as 0 in the numerator and as a row
\* in the denominator
SeriesMeanCountingMissing(series) ==
    IF series = <<>> THEN NaN
    ELSE Rat(RatSum([i \in 1..Len(series) |->
                        IF series[i] = NaN THEN Rat(0, 1) ELSE series[i]])[1],
             RatSum([i \in 1..Len(series) |->
                        IF series[i] = NaN THEN Rat(0, 1) ELSE series[i]])[2] * Len(series))

\* Series.mean(): NaN is skipped; the mean of nothing is NaN
SeriesMean(series) ==
    LET keep == [i \in 1..Len(series) |-> series[i] # NaN]
        idx == SelectIdx(Len(series), keep)
        vals == [k \in 1..Len(idx) |-> series[idx[k]]]
        total == RatSum(vals)
    IN  IF idx = <<>> THEN NaN ELSE Rat(total[1], total[2] * Len(idx))

-----------------------------------------------------------------------------
(* pd.to_numeric(..., errors="coerce") on one cell, lines 239, 268, 445, 562 *)

IsDigit(ch) == IsIn(DigitChars, ch)
DigitValue(ch) == IndexIn(DigitChars, ch) - 1

RECURSIVE DigitsValue(_)
DigitsValue(ds) ==
    IF ds = <<>> THEN 0
    ELSE 10 * DigitsValue(SubSeq(ds, 1, Len(ds) - 1)) + DigitValue(ds[Len(ds)])

\* the parser skips the white space before and after the number
RECURSIVE StripLeft(_)
StripLeft(s) == IF s # <<>> /\ s[1] = " " THEN StripLeft(Tail(s)) ELSE s
RECURSIVE StripRight(_)
StripRight(s) ==
    IF s # <<>> /\ s[Len(s)] = " " THEN StripRight(SubSeq(s, 1, Len(s) - 1)) ELSE s
Strip(s) == StripRight(StripLeft(s))

\* digits, optionally a decimal point and digits, at least one digit in all;
\* anything else (a "%", a letter, a second point, nothing) is coerced to NaN
ParseDecimal(s) ==
    LET dots == {i \in 1..Len(s) : s[i] = "."}
        dot == IF dots = {} THEN Len(s) + 1 ELSE Min(dots)
        whole == SubSeq(s, 1, dot - 1)
        frac == SubSeq(s, dot + 1, Len(s))
        digits == whole \o frac
    IN  IF /\ digits # <<>>
           /\ \A i \in 1..Len(digits) : IsDigit(digits[i])
        THEN Rat(DigitsValue(digits), Pow10(Len(frac)))
        ELSE NaN

\* a conversion that also drops one "%" at the end of the text
StripPercent(s) ==
    IF s # <<>> /\ s[Len(s)] = "%" THEN StripRight(SubSeq(s, 1, Len(s) - 1)) ELSE s
to_numeric_percent(c) == IF c = NaN THEN NaN ELSE ParseDecimal(StripPercent(Strip(c)))

\* pd.to_numeric(..., errors="coerce") of one cell, lines 239 and 268
to_numeric(c) == IF c = NaN THEN NaN ELSE ParseDecimal(Strip(c))

\* f"{x:.1f}": x rounded to tenths, ties to even; the result in tenths
Format1f(x) ==
    LET n == 10 * x[1]
        d == x[2]
        q == n \div d
        r == n % d
    IN  IF 2 * r < d THEN q
        ELSE IF 2 * r > d THEN q + 1
        ELSE IF q % 2 = 0 THEN q ELSE q + 1

-----------------------------------------------------------------------------
(* Tables and the pandas operations the sections use *)

\* df[name]: the cells of one column, in row order
Column(t, name) ==
    LET j == IndexIn(t.cols, name)
    IN  [r \in 1..Len(t.rows) |-> t.rows[r][j]]

\* Series.astype(str): a missing cell becomes the text "nan"
astype_str(c) == IF c = NaN THEN <<"n","a","n">> ELSE c

\* the indices in 1..n that satisfy keep, ascending
Where(n, keep) == SelectIdx(n, keep)

\* the distinct texts of a set, ascending (groupby sorts its group keys)
RECURSIVE SortedKeys(_)
SortedKeys(S) ==
    IF S = {} THEN <<>>
    ELSE LET m == CHOOSE x \in S : \A y \in S : y = x \/ StrLess(x, y)
         IN  <<m>> \o SortedKeys(S \ {m})

\* the distinct texts of a sequence in the order of their first appearance
\* (value_counts counts through a hash table)
RECURSIVE FirstSeen(_)
FirstSeen(seq) ==
    IF seq = <<>> THEN <<>>
    ELSE LET front == FirstSeen(SubSeq(seq, 1, Len(seq) - 1))
             last == seq[Len(seq)]
         IN  IF IsIn(front, last) THEN front ELSE Append(front, last)

RemoveAt(seq, i) == SubSeq(seq, 1, i - 1) \o SubSeq(seq, i + 1, Len(seq))

\* sort_values(..., ascending=False) of entries <<key, value>>: descending by
\* value; entries of equal value keep their order (pandas sorts the reversed
\* values ascending and reverses the result; below 16 entries numpy's
\* quicksort is an insertion sort)
\* a sort_values that leaves the entries as groupby ordered them
sort_values_missing(es) == es

RECURSIVE sort_values_desc(_)
sort_values_desc(es) ==
    IF es = <<>> THEN <<>>
    ELSE LET i == Min({a \in 1..Len(es) :
                          \A b \in 1..Len(es) : ~RatLess(es[a][2], es[b][2])})
         IN  <<es[i]>> \o sort_values_desc(RemoveAt(es, i))

\* dropna(subset=[key, value]) then groupby(key)[value].mean(): one entry
\* <<key, mean>> per key with at least one remaining row, keys ascending
groupby_mean(keys, vals) ==
    LET n == Len(keys)
        kept == {r \in 1..n : keys[r] # NaN /\ vals[r] # NaN}
        ks == SortedKeys({keys[r] : r \in kept})
        rowsOf(k) == Where(n, [r \in 1..n |-> r \in kept /\ keys[r] = k])
    IN  [g \in 1..Len(ks) |->
            <<ks[g], SeriesMean([i \in 1..Len(rowsOf(ks[g])) |-> vals[rowsOf(ks[g])[i]]])>>]

\* Series.dropna().value_counts(): <<value, count>>, most frequent first
value_counts(series) ==
    LET n == Len(series)
        idx == Where(n, [r \in 1..n |-> series[r] # NaN])
        present == [i \in 1..Len(idx) |-> series[idx[i]]]
        ks == FirstSeen(present)
    IN  sort_values_desc([g \in 1..Len(ks) |->
            <<ks[g], Rat(Cardinality({i \in 1..Len(present) : present[i] = ks[g]}), 1)>>])

\* a converted timestamp: the instant in seconds
Ts(s) == <<"ts", s>>

\* seconds in a day, the divisor of lines 352, 387, 587
SecondsPerDay == 86400

\* the model writes a date as the text T<k>: k half days after its epoch
HalfDay == SecondsPerDay \div 2

\* def to_datetime_safe(s), on one cell: a date text is its instant, anything
\* else (another text, a missing cell) is NaT
to_datetime_safe(c) ==
    IF /\ c # NaN
       /\ Len(c) >= 2
       /\ c[1] = "T"
       /\ \A i \in 2..Len(c) : IsDigit(c[i])
    THEN Ts(DigitsValue(Tail(c)) * HalfDay)
    ELSE NaN

\* (now_utc - t).dt.total_seconds() / 86400.0 of one converted cell
ElapsedDays(now, t) == IF t = NaN THEN NaN ELSE Rat(now - t[2], SecondsPerDay)

-----------------------------------------------------------------------------
(* The sections of the script, in source order *)

\* p0_count, lines 232-234: the rows whose priority text contains "P0" in
\* either case; a missing cell reads "nan"
P0Count(t, c) ==
    IF Resolved(c.priority_col, t.cols)
    THEN LET priority == Column(t, c.priority_col)
         IN  PyInt(Cardinality({r \in 1..Len(priority) :
                Contains(<<"p","0">>, Lower(astype_str(priority[r])))}))
    ELSE NA

\* pd.to_numeric(df[delay_col], errors="coerce"), the column converted
NumericColumn(t, name) ==
    LET cells == Column(t, name)
    IN  [r \in 1..Len(cells) |-> to_numeric(cells[r])]

\* avg_delay_val, line 239
AvgDelayVal(t, c) ==
    IF Resolved(c.delay_col, t.cols)
    THEN SeriesMean(NumericColumn(t, c.delay_col))
    ELSE Unset

\* avg_delay, lines 237-241: "N/A" unless the mean is a number
AvgDelay(t, c) ==
    IF Resolved(c.delay_col, t.cols) /\ AvgDelayVal(t, c) # NaN
    THEN <<"pct", Format1f(AvgDelayVal(t, c))>>
    ELSE NA

\* perf_df, lines 267-270
DelayByRole(t, role_col, delay_col) ==
    sort_values_desc(groupby_mean(Column(t, role_col), NumericColumn(t, delay_col)))

\* q_df, lines 349-354 (and q of lines 584-590)
QueueTimeByStatus(t, status_col, status_entered_col, now) ==
    LET entered == Column(t, status_entered_col)
    IN  sort_values_desc(groupby_mean(
            Column(t, status_col),
            [r \in 1..Len(entered) |-> ElapsedDays(now, to_datetime_safe(entered[r]))]))

\* a stale filter that wants strictly more than the threshold
StaleRowsStrictlyOlder(t, last_updated_col, now, d) ==
    LET n == Len(t.rows)
        updated == Column(t, last_updated_col)
        days == [r \in 1..n |-> ElapsedDays(now, to_datetime_safe(updated[r]))]
        keep == [r \in 1..n |-> days[r] # NaN /\ RatLess(Rat(d, 1), days[r])]
        idx == Where(n, keep)
    IN  sort_values_desc([i \in 1..Len(idx) |-> <<idx[i], days[idx[i]]>>])

\* stale_df, lines 384-392: <<row, _stale_days>> of the rows whose converted
\* date is not NaT and whose elapsed days reach the threshold, longest first
StaleRows(t, last_updated_col, now, d) ==
    LET n == Len(t.rows)
        updated == Column(t, last_updated_col)
        days == [r \in 1..n |-> ElapsedDays(now, to_datetime_safe(updated[r]))]
        keep == [r \in 1..n |-> days[r] # NaN /\ ~RatLess(days[r], Rat(d, 1))]
        idx == Where(n, keep)
    IN  sort_values_desc([i \in 1..Len(idx) |-> <<idx[i], days[idx[i]]>>])

\* the tokens of line 438
TruthyTokens == { <<"t","r","u","e">>, <<"1">>, <<"y","e","s">>, <<"y">> }

\* .astype(str).str.lower().isin(["true", "1", "yes", "y"]) of one cell
IsTruthy(c) == Lower(astype_str(c)) \in TruthyTokens

BoolRat(b) == IF b THEN Rat(1, 1) ELSE Rat(0, 1)
Times100(x) == IF x = NaN THEN NaN ELSE Rat(100 * x[1], x[2])

\* a path choice that computes from the durations whenever they are there
SlaPathDurationsFirst(t, c) ==
    IF /\ Resolved(c.resolution_days_col, t.cols)
       /\ Resolved(c.sla_target_col, t.cols) THEN "b"
    ELSE IF Resolved(c.sla_breached_col, t.cols) THEN "a"
    ELSE "none"

\* which branch of lines 437-451 runs: (a) the flag column, else (b) the
\* resolution days against the target days
SlaPath(t, c) ==
    IF Resolved(c.sla_breached_col, t.cols) THEN "a"
    ELSE IF /\ Resolved(c.resolution_days_col, t.cols)
            /\ Resolved(c.sla_target_col, t.cols) THEN "b"
    ELSE "none"

\* tmp[sla_breached_col] of line 438 (a), tmp["_sla_breached"] of line 447 (b)
BreachedFlags(t, c) ==
    IF SlaPath(t, c) = "a"
    THEN LET flag == Column(t, c.sla_breached_col)
         IN  [r \in 1..Len(flag) |-> BoolRat(IsTruthy(flag[r]))]
    ELSE LET res == NumericColumn(t, c.resolution_days_col)
             tgt == NumericColumn(t, c.sla_target_col)
         IN  [r \in 1..Len(res) |->
                BoolRat(res[r] # NaN /\ tgt[r] # NaN /\ RatLess(tgt[r], res[r]))]

\* sla_breach_rate, lines 434-451: assigned only under `if priority_col ...`
SlaBreachRate(t, c) ==
    IF SlaPath(t, c) # "none" /\ Resolved(c.priority_col, t.cols)
    THEN Times100(SeriesMean(BreachedFlags(t, c)))
    ELSE None

\* sla_df, lines 433-450: <<priority, mean of the flag>>, priorities ascending
SlaByPriority(t, c) ==
    IF SlaPath(t, c) # "none" /\ Resolved(c.priority_col, t.cols)
    THEN groupby_mean(Column(t, c.priority_col), BreachedFlags(t, c))
    ELSE <<>>

\* a blocked list that adds the rows with a reason to the rows with the status
BlockedRowsMerged(t, c) ==
    LET n == Len(t.rows)
        status == Column(t, c.status_col)
        reason == Column(t, c.blocked_reason_col)
    IN  Where(n, [r \in 1..n |->
            \/ /\ Resolved(c.status_col, t.cols)
               /\ Lower(astype_str(status[r])) = <<"b","l","o","c","k","e","d">>
            \/ /\ Resolved(c.blocked_reason_col, t.cols)
               /\ reason[r] # NaN])

\* blocked_df, lines 519-524: the rows, in table order
BlockedRows(t, c) ==
    LET n == Len(t.rows)
        status == Column(t, c.status_col)
        reason == Column(t, c.blocked_reason_col)
        primary ==
            IF Resolved(c.status_col, t.cols)
            THEN Where(n, [r \in 1..n |->
                    Lower(astype_str(status[r])) = <<"b","l","o","c","k","e","d">>])
            ELSE <<>>
    IN  IF primary = <<>> /\ Resolved(c.blocked_reason_col, t.cols)
        THEN Where(n, [r \in 1..n |-> reason[r] # NaN])
        ELSE primary

\* the findings of lines 557-637, each what its bullets.append adds: a finding
\* <<topic, "top", name, value>> (for the SLA <<topic, "rate", value>>) or a
\* neutral line <<topic, "insufficient">> / <<topic, "missing">>

\* lines 560-580
DelayBullet(t, c) ==
    IF Resolved(c.role_col, t.cols) /\ Resolved(c.delay_col, t.cols)
    THEN LET r == DelayByRole(t, c.role_col, c.delay_col)
         IN  IF r # <<>>
             THEN << <<"delay", "top", r[1][1], Format1f(r[1][2])>> >>
             ELSE << <<"delay", "insufficient">> >>
    ELSE << <<"delay", "missing">> >>

\* a queue finding that names the status with the shortest wait
QueueBulletShortest(t, c, now) ==
    IF Resolved(c.status_col, t.cols) /\ Resolved(c.status_entered_col, t.cols)
    THEN LET q == QueueTimeByStatus(t, c.status_col, c.status_entered_col, now)
         IN  IF q # <<>>
             THEN << <<"queue", "top", q[Len(q)][1], Format1f(q[Len(q)][2])>> >>
             ELSE << <<"queue", "insufficient">> >>
    ELSE << <<"queue", "missing">> >>

\* lines 583-605
QueueBullet(t, c, now) ==
    IF Resolved(c.status_col, t.cols) /\ Resolved(c.status_entered_col, t.cols)
    THEN LET q == QueueTimeByStatus(t, c.status_col, c.status_entered_col, now)
         IN  IF q # <<>>
             THEN << <<"queue", "top", q[1][1], Format1f(q[1][2])>> >>
             ELSE << <<"queue", "insufficient">> >>
    ELSE << <<"queue", "missing">> >>

\* lines 608-617
SlaBullet(rate) ==
    IF rate # None
    THEN << <<"sla", "rate", IF rate = NaN THEN NaN ELSE PyInt(Format1f(rate))>> >>
    ELSE << <<"sla", "missing">> >>

\* lines 620-637
RootCauseBullet(t, c) ==
    IF Resolved(c.root_cause_col, t.cols)
    THEN LET rc == value_counts(Column(t, c.root_cause_col))
         IN  IF rc # <<>>
             THEN << <<"root_cause", "top", rc[1][1]>> >>
             ELSE << <<"root_cause", "insufficient">> >>
    ELSE << <<"root_cause", "missing">> >>

\* selecting one column twice, df[[a, a]], yields two columns of that name;
\* pd.to_numeric / pd.to_datetime of the frame tmp[a] then raise (lines 268,
\* 350, 562, 585)
SameColumnTwice(a, b, cols) == Resolved(a, cols) /\ Resolved(b, cols) /\ a = b

-----------------------------------------------------------------------------
(* The script run *)

\* the wall clock is read in half-day steps up to this many
MaxClock == 4
Instants == {k * HalfDay : k \in 0..MaxClock}

\* st.slider(..., 1, 180, 30), line 389
SliderMin == 1
SliderMax == 180
\* largest threshold the model lets the user choose
MaxThreshold == 2
Thresholds == {d \in SliderMin..SliderMax : d <= MaxThreshold}

\* the state of a run that has just loaded its table
Fresh ==
    /\ col = Unset /\ p0_count = Unset /\ avg_delay_val = Unset
    /\ avg_delay = Unset /\ perf_df = Unset /\ q_df = Unset
    /\ now_utc = Unset /\ threshold = Unset /\ stale_df = Unset
    /\ sla_df = Unset /\ sla_breach_rate = Unset /\ rc_df = Unset
    /\ blocked_df = Unset /\ bullets = Unset

InitRun(loaded, instants) ==
    /\ loaded
    /\ pc = "detect"
    /\ clicked = FALSE
    /\ clock \in instants
    /\ Fresh
    /\ cell = Unset /\ parsed = Unset

\* lines 200-215
Detect ==
    /\ pc = "detect"
    /\ col' = DetectColumns(df.cols)
    /\ pc' = "key_metrics"
    /\ UNCHANGED <<df, clicked, clock, p0_count, avg_delay_val, avg_delay,
                   perf_df, q_df, now_utc, threshold, stale_df, sla_df,
                   sla_breach_rate, rc_df, blocked_df, bullets, cell, parsed>>

\* lines 228-242
KeyMetrics ==
    /\ pc = "key_metrics"
    /\ p0_count' = P0Count(df, col)
    /\ avg_delay_val' = AvgDelayVal(df, col)
    /\ avg_delay' = AvgDelay(df, col)
    /\ pc' = "perf"
    /\ UNCHANGED <<df, clicked, clock, col, perf_df, q_df, now_utc, threshold,
                   stale_df, sla_df, sla_breach_rate, rc_df, blocked_df,
                   bullets, cell, parsed>>

\* lines 257-288
PerformanceBreakdown ==
    /\ pc = "perf"
    /\ IF ~(Resolved(col.role_col, df.cols) /\ Resolved(col.delay_col, df.cols))
       THEN perf_df' = perf_df /\ pc' = "queue"
       ELSE IF SameColumnTwice(col.role_col, col.delay_col, df.cols)
       THEN perf_df' = perf_df /\ pc' = "crashed"
       ELSE /\ perf_df' = DelayByRole(df, col.role_col, col.delay_col)
            /\ pc' = "queue"
    /\ UNCHANGED <<df, clicked, clock, col, p0_count, avg_delay_val, avg_delay,
                   q_df, now_utc, threshold, stale_df, sla_df,
                   sla_breach_rate, rc_df, blocked_df, bullets, cell, parsed>>

\* lines 347-366
QueueTime ==
    /\ pc = "queue"
    /\ IF ~(Resolved(col.status_col, df.cols) /\ Resolved(col.status_entered_col, df.cols))
       THEN /\ q_df' = <<>> /\ pc' = "stale"
            /\ UNCHANGED <<now_utc, clock>>
       ELSE IF SameColumnTwice(col.status_col, col.status_entered_col, df.cols)
       THEN /\ q_df' = <<>> /\ pc' = "crashed"
            /\ UNCHANGED <<now_utc, clock>>
       ELSE \E t \in Instants :
            /\ t >= clock
            /\ clock' = t
            /\ now_utc' = t
            /\ q_df' = QueueTimeByStatus(df, col.status_col, col.status_entered_col, t)
            /\ pc' = "stale"
    /\ UNCHANGED <<df, clicked, col, p0_count, avg_delay_val, avg_delay,
                   perf_df, threshold, stale_df, sla_df, sla_breach_rate,
                   rc_df, blocked_df, bullets, cell, parsed>>

\* lines 381-418
StaleTickets ==
    /\ pc = "stale"
    /\ IF ~Resolved(col.last_updated_col, df.cols)
       THEN /\ stale_df' = <<>>
            /\ UNCHANGED <<now_utc, clock, threshold>>
       ELSE \E t \in Instants, d \in Thresholds :
            /\ t >= clock
            /\ clock' = t
            /\ now_utc' = t
            /\ threshold' = d
            /\ stale_df' = StaleRows(df, col.last_updated_col, t, d)
    /\ pc' = "sla"
    /\ UNCHANGED <<df, clicked, col, p0_count, avg_delay_val, avg_delay,
                   perf_df, q_df, sla_df, sla_breach_rate, rc_df, blocked_df,
                   bullets, cell, parsed>>

\* lines 433-466
SlaRisk ==
    /\ pc = "sla"
    /\ sla_df' = SlaByPriority(df, col)
    /\ sla_breach_rate' = SlaBreachRate(df, col)
    /\ pc' = "root_cause"
    /\ UNCHANGED <<df, clicked, clock, col, p0_count, avg_delay_val, avg_delay,
                   perf_df, q_df, now_utc, threshold, stale_df, rc_df,
                   blocked_df, bullets, cell, parsed>>

\* lines 481-504
RootCause ==
    /\ pc = "root_cause"
    /\ rc_df' = IF Resolved(col.root_cause_col, df.cols)
                THEN value_counts(Column(df, col.root_cause_col))
                ELSE rc_df
    /\ pc' = "blocked"
    /\ UNCHANGED <<df, clicked, clock, col, p0_count, avg_delay_val, avg_delay,
                   perf_df, q_df, now_utc, threshold, stale_df, sla_df,
                   sla_breach_rate, blocked_df, bullets, cell, parsed>>

\* lines 519-541
BlockedDetails ==
    /\ pc = "blocked"
    /\ blocked_df' = BlockedRows(df, col)
    /\ pc' = "summary"
    /\ UNCHANGED <<df, clicked, clock, col, p0_count, avg_delay_val, avg_delay,
                   perf_df, q_df, now_utc, threshold, stale_df, sla_df,
                   sla_breach_rate, rc_df, bullets, cell, parsed>>

\* lines 556-639: the button is True in the run its click started
ExecutiveSummary ==
    /\ pc = "summary"
    /\ IF ~clicked
       THEN /\ pc' = "done"
            /\ UNCHANGED <<bullets, now_utc, clock>>
       ELSE IF \/ SameColumnTwice(col.role_col, col.delay_col, df.cols)
               \/ SameColumnTwice(col.status_col, col.status_entered_col, df.cols)
       THEN /\ pc' = "crashed"
            /\ UNCHANGED <<bullets, now_utc, clock>>
       ELSE IF Resolved(col.status_col, df.cols) /\ Resolved(col.status_entered_col, df.cols)
       THEN \E t \in Instants :
            /\ t >= clock
            /\ clock' = t
            /\ now_utc' = t
            /\ bullets' = DelayBullet(df, col) \o QueueBullet(df, col, t)
                            \o SlaBullet(sla_breach_rate) \o RootCauseBullet(df, col)
            /\ pc' = "done"
       ELSE /\ bullets' = DelayBullet(df, col) \o QueueBullet(df, col, clock)
                            \o SlaBullet(sla_breach_rate) \o RootCauseBullet(df, col)
            /\ pc' = "done"
            /\ UNCHANGED <<now_utc, clock>>
    /\ UNCHANGED <<df, clicked, col, p0_count, avg_delay_val, avg_delay,
                   perf_df, q_df, threshold, stale_df, sla_df, sla_breach_rate,
                   rc_df, blocked_df, cell, parsed>>

\* any interaction (the button, the slider) runs the script again on the same
\* table; the button exists only once a run has rendered it
Rerun ==
    /\ pc = "done"
    /\ \E b \in BOOLEAN : clicked' = b
    /\ pc' = "detect"
    /\ col' = Unset /\ p0_count' = Unset /\ avg_delay_val' = Unset
    /\ avg_delay' = Unset /\ perf_df' = Unset /\ q_df' = Unset
    /\ now_utc' = Unset /\ threshold' = Unset /\ stale_df' = Unset
    /\ sla_df' = Unset /\ sla_breach_rate' = Unset /\ rc_df' = Unset
    /\ blocked_df' = Unset /\ bullets' = Unset
    /\ UNCHANGED <<df, clock, cell, parsed>>

Next ==
    \/ Detect
    \/ KeyMetrics
    \/ PerformanceBreakdown
    \/ QueueTime
    \/ StaleTickets
    \/ SlaRisk
    \/ RootCause
    \/ BlockedDetails
    \/ ExecutiveSummary
    \/ Rerun

-----------------------------------------------------------------------------
(* The tables a run is started on.  A universe lists columns as             *)
(* <<name, cells>>; a table takes a non-empty selection of them and         *)
(* minRows to maxRows rows whose cells come from the column's set (a CSV    *)
(* with only its header line has no rows).  A cell is a text                *)
(* or NaN (an empty CSV field).  No column name of a universe matches both  *)
(* a priority alias and an SLA alias: pandas' result of grouping a column   *)
(* by itself is not modelled.                                               *)

RECURSIVE Ascending(_)
Ascending(S) == IF S = {} THEN <<>> ELSE <<Min(S)>> \o Ascending(S \ {Min(S)})

TableOf(U, idx, rows) == [cols |-> [k \in 1..Len(idx) |-> U[idx[k]][1]], rows |-> rows]

RowsOf(U, idx) ==
    {r \in [1..Len(idx) -> UNION {U[i][2] : i \in 1..Len(U)}] :
        \A k \in 1..Len(idx) : r[k] \in U[idx[k]][2]}

\* df is a table over the columns idx (indices into U, in table order)
LoadOver(U, idx, minRows, maxRows) ==
    \E n \in minRows..maxRows :
        \E rows \in [1..n -> RowsOf(U, idx)] : df = TableOf(U, idx, rows)

\* columns in the universe's order
Load(U, minRows, maxRows) ==
    \E S \in (SUBSET (1..Len(U))) \ {{}} : LoadOver(U, Ascending(S), minRows, maxRows)

\* columns in any order, at most maxCols of them
Orderings(n, maxCols) ==
    UNION {{f \in [1..k -> 1..n] : \A i, j \in 1..k : i # j => f[i] # f[j]} :
              k \in 1..maxCols}
LoadAnyOrder(U, maxCols, minRows, maxRows) ==
    \E idx \in Orderings(Len(U), maxCols) : LoadOver(U, idx, minRows, maxRows)

Delay_Rate_pct_name == <<"D","e","l","a","y","_","R","a","t","e","_","%">>

RoleCells == {<<"A">>, <<"B">>, NaN}
DelayCells == {<<"1","0">>, <<"3","0">>, <<"1","2",".","3","%">>, NaN}
PriorityCells == {<<"p","0">>, <<"P","1">>, NaN}
SlaCells == {<<"Y","e","s">>, <<"n","o">>, NaN}
ResolutionCells == {<<"1">>, <<"3">>}
TargetCells == {<<"2">>}
StatusCells == {<<"B","l","o","c","k","e","d">>, <<"o","p","e","n">>, NaN}
ReasonCells == {<<"v","e","n","d","o","r">>, NaN}
DateCells == {<<"T","0">>, <<"T","1">>, <<"T","3">>, <<"s","o","o","n">>, NaN}
RootCauseCells == {<<"S","p","e","c">>, <<"A","P","I">>, NaN}

\* most rows of a table
MaxRows == 3

(* Key metrics and delay by role *)
DelayUniverse == << <<Role_name, RoleCells>>, <<Delay_Rate_pct_name, DelayCells>> >>

InitDelay == InitRun(Load(DelayUniverse, 0, MaxRows), {MaxClock * HalfDay})

SpecDelay == InitDelay /\ [][Next]_vars

\* most rows of a table that has many columns
MaxRowsWide == 2

(* SLA and P0: tables with at least one ticket *)
SlaUniverse ==
    << <<Priority_name, PriorityCells>>, <<SLA_Breached_name, SlaCells>>,
       <<Resolution_Days_name, ResolutionCells>>, <<SLA_Target_Days_name, TargetCells>> >>

InitSla == InitRun(Load(SlaUniverse, 1, MaxRowsWide), {MaxClock * HalfDay})

SpecSla == InitSla /\ [][Next]_vars

(* Stale tickets: the clock starts at the epoch, so that every instant and  *)
(* every threshold can be the one the section reads                         *)
StaleUniverse == << <<Last_Updated_Date_name, DateCells>> >>

InitStale == InitRun(Load(StaleUniverse, 0, MaxRows), {0})

SpecStale == InitStale /\ [][Next]_vars

(* Blocked tickets *)
BlockedUniverse ==
    << <<Status_Current_name, StatusCells>>, <<Blocked_Reason_name, ReasonCells>> >>

InitBlocked == InitRun(Load(BlockedUniverse, 0, MaxRows), {MaxClock * HalfDay})

SpecBlocked == InitBlocked /\ [][Next]_vars

(* Executive summary: each finding's columns with every content, and every  *)
(* selection of the findings' columns with one ticket                       *)
EnteredCells == {<<"T","0">>, <<"T","1">>, NaN}
QueueUniverse ==
    << <<Status_Current_name, StatusCells>>, <<Status_Entered_Date_name, EnteredCells>> >>
RootCauseUniverse == << <<Root_Cause_Category_name, RootCauseCells>> >>
FlagUniverse ==
    << <<Priority_name, PriorityCells>>, <<SLA_Breached_name, SlaCells>> >>
OneTicketUniverse ==
    << <<Role_name, {<<"A">>}>>, <<Delay_Rate_pct_name, {<<"1","0">>}>>,
       <<Status_Current_name, {<<"o","p","e","n">>}>>,
       <<Status_Entered_Date_name, {<<"T","1">>}>>,
       <<Priority_name, {<<"p","0">>}>>, <<SLA_Breached_name, {<<"Y","e","s">>}>>,
       <<Root_Cause_Category_name, {<<"A","P","I">>}>> >>

LoadSummary ==
    \/ Load(DelayUniverse, 0, MaxRowsWide)
    \/ Load(QueueUniverse, 0, MaxRowsWide)
    \/ Load(RootCauseUniverse, 0, MaxRowsWide)
    \/ Load(FlagUniverse, 0, MaxRowsWide)
    \/ Load(OneTicketUniverse, 1, 1)

InitSummary == InitRun(LoadSummary, {(MaxClock - 1) * HalfDay})

SpecSummary == InitSummary /\ [][Next]_vars

(* Elapsed times: a table with a status, the date the status was entered    *)
(* and the date of the last update, so that the queue, the stale tickets    *)
(* and the summary each read the clock                                      *)
InstantUniverse ==
    << <<Status_Current_name, {<<"o","p","e","n">>}>>,
       <<Status_Entered_Date_name, EnteredCells>>,
       <<Last_Updated_Date_name, EnteredCells>> >>

InitInstant ==
    InitRun(LoadOver(InstantUniverse, <<1, 2, 3>>, 1, MaxRowsWide), {0})

SpecInstant == InitInstant /\ [][Next]_vars

(* Column detection: headers in any order, with names that several alias    *)
(* lists match                                                              *)
Status_name == <<"S","t","a","t","u","s">>
Blocked_Status_name == <<"B","l","o","c","k","e","d","_","S","t","a","t","u","s">>
Team_Delay_name == <<"T","e","a","m","_","D","e","l","a","y">>
Updated_name == <<"U","p","d","a","t","e","d">>
\* a header no keyword list matches
Notes_name == <<"N","o","t","e","s">>

\* most columns of a header
MaxCols == 3

HeaderUniverse ==
    << <<Status_Current_name, {NaN}>>, <<Status_Entered_Date_name, {NaN}>>,
       <<Status_name, {NaN}>>, <<Blocked_Status_name, {NaN}>>,
       <<Blocked_Reason_name, {NaN}>>, <<Team_Delay_name, {NaN}>>,
       <<Role_name, {NaN}>>, <<Delay_Rate_pct_name, {NaN}>>,
       <<Updated_name, {NaN}>>, <<Notes_name, {NaN}>> >>

InitResolve ==
    InitRun(LoadAnyOrder(HeaderUniverse, MaxCols, 0, 1), {MaxClock * HalfDay})

SpecResolve == InitResolve /\ [][Next]_vars

-----------------------------------------------------------------------------
(* Normalising one DelayRate cell: pd.to_numeric on every text over a small *)
(* alphabet, and on the empty cell.                                         *)

\* longest cell text
MaxCellLen == 5
CellAlphabet == {" ", "1", "2", "3", ".", "%", "a"}

CellTexts == UNION {[1..n -> CellAlphabet] : n \in 0..MaxCellLen}

InitNorm ==
    /\ cell \in CellTexts \cup {NaN}
    /\ parsed = Unset
    /\ df = Unset /\ pc = "to_numeric" /\ clicked = FALSE /\ clock = 0
    /\ col = Unset /\ p0_count = Unset /\ avg_delay_val = Unset
    /\ avg_delay = Unset /\ perf_df = Unset /\ q_df = Unset
    /\ now_utc = Unset /\ threshold = Unset /\ stale_df = Unset
    /\ sla_df = Unset /\ sla_breach_rate = Unset /\ rc_df = Unset
    /\ blocked_df = Unset /\ bullets = Unset

Normalize ==
    /\ pc = "to_numeric"
    /\ parsed' = to_numeric(cell)
    /\ pc' = "done"
    /\ UNCHANGED <<df, clicked, clock, col, p0_count, avg_delay_val, avg_delay,
                   perf_df, q_df, now_utc, threshold, stale_df, sla_df,
                   sla_breach_rate, rc_df, blocked_df, bullets, cell>>

NextNorm == Normalize

SpecNorm == InitNorm /\ [][NextNorm]_vars

-----------------------------------------------------------------------------
(* Claims about the delay metrics, under SpecDelay *)

\* the sum of f over a finite set of rows
RECURSIVE SumOver(_, _)
SumOver(S, f) ==
    IF S = {} THEN Rat(0, 1)
    ELSE LET r == CHOOSE x \in S : TRUE
         IN  RatAdd(f[r], SumOver(S \ {r}, f))

KeyMetricsDone == pc \notin {"detect", "key_metrics"}
DelayResolved == Resolved(col.delay_col, df.cols)
\* the rows whose cell in a converted column is a number
NumberRows(nums) == {r \in 1..Len(nums) : nums[r] # NaN}
\* the mean of nums over the rows S
MeanOver(S, nums) ==
    LET total == SumOver(S, nums)
    IN  Rat(total[1], total[2] * Cardinality(S))

\* C1: Average Delay is the mean of the non-missing DelayRate values only
\* (missing cells count neither in the sum nor in the number of values), and
\* it is reported as N/A, not as a number, when DelayRate is unresolved or no
\* cell holds a number.
C1_AverageDelay ==
    KeyMetricsDone =>
        IF DelayResolved
        THEN LET nums == NumericColumn(df, col.delay_col)
                 rows == NumberRows(nums)
             IN  IF rows # {}
                 THEN /\ avg_delay_val # NaN
                      /\ RatEq(avg_delay_val, MeanOver(rows, nums))
                      /\ avg_delay = <<"pct", Format1f(MeanOver(rows, nums))>>
                 ELSE avg_delay = NA /\ avg_delay_val = NaN
        ELSE avg_delay = NA /\ avg_delay_val = Unset

\* [10, missing, 30] averages to 20
C1_Witness ==
    /\ KeyMetricsDone
    /\ DelayResolved
    /\ Column(df, col.delay_col) = << <<"1","0">>, NaN, <<"3","0">> >>
    /\ RatEq(avg_delay_val, Rat(20, 1))
    /\ avg_delay = <<"pct", 200>>

PerfDone == perf_df # Unset

\* C7: Delay by Role holds exactly one entry per role that has a row with a
\* non-missing DelayRate, its value the mean of that role's non-missing
\* values; roles without a valid value are absent; the entries are in
\* descending order of the mean.
C7_DelayByRole ==
    PerfDone =>
        LET nums == NumericColumn(df, col.delay_col)
            roles == Column(df, col.role_col)
            valid == {r \in NumberRows(nums) : roles[r] # NaN}
            rowsOf(role) == {r \in valid : roles[r] = role}
        IN  /\ {perf_df[i][1] : i \in 1..Len(perf_df)} = {roles[r] : r \in valid}
            /\ Len(perf_df) = Cardinality({roles[r] : r \in valid})
            /\ \A i \in 1..Len(perf_df) :
                  RatEq(perf_df[i][2], MeanOver(rowsOf(perf_df[i][1]), nums))
            /\ \A i, j \in 1..Len(perf_df) :
                  i < j => ~RatLess(perf_df[i][2], perf_df[j][2])

\* B (mean 30, one of its rows unparsable) before A (mean 10)
C7_Witness ==
    /\ PerfDone
    /\ Len(perf_df) = 2
    /\ perf_df[1][1] = <<"B">> /\ RatEq(perf_df[1][2], Rat(30, 1))
    /\ perf_df[2][1] = <<"A">> /\ RatEq(perf_df[2][2], Rat(10, 1))
    /\ \E r \in 1..Len(df.rows) :
          /\ Column(df, col.role_col)[r] = <<"B">>
          /\ NumericColumn(df, col.delay_col)[r] = NaN

-----------------------------------------------------------------------------
(* Claims about the normalisation of one cell, under SpecNorm *)

Normalized == pc = "done" /\ cell # Unset

\* digits with at most one decimal point and at least one digit
IsDecimalText(s) ==
    LET dots == {i \in 1..Len(s) : s[i] = "."}
        digs == {i \in 1..Len(s) : IsDigit(s[i])}
    IN  /\ Cardinality(dots) <= 1
        /\ digs # {}
        /\ dots \cup digs = 1..Len(s)

\* the sum of f over a finite set of positions
RECURSIVE PlaceSum(_, _)
PlaceSum(S, f) ==
    IF S = {} THEN 0
    ELSE LET i == CHOOSE x \in S : TRUE
         IN  f[i] + PlaceSum(S \ {i}, f)

\* the value of such a text, digit by digit by its place: in units of the
\* last decimal place, over that unit
DecimalValue(s) ==
    LET digs == {i \in 1..Len(s) : IsDigit(s[i])}
        after(i) == Cardinality({j \in digs : j > i})
        decimals == Cardinality({j \in digs : \E k \in 1..Len(s) : s[k] = "." /\ k < j})
    IN  Rat(PlaceSum(digs, [i \in digs |-> DigitValue(s[i]) * Pow10(after(i))]),
            Pow10(decimals))

\* the value the text s stands for, NaN if it is no decimal number
ValueOf(s) == IF IsDecimalText(s) THEN DecimalValue(s) ELSE NaN
\* both missing, or the same number (numbers are kept in lowest terms)
SameNumber(a, b) == a = b

\* C2 as stated: a trailing "%" and the surrounding whitespace are stripped
\* before parsing, so "12.3%", "12.3" and " 12.3 " all give 12.3; "", "abc"
\* and a null cell give the missing-number marker.
C2_PercentStripped ==
    Normalized =>
        IF cell = NaN THEN parsed = NaN
        ELSE SameNumber(parsed, ValueOf(StripPercent(Strip(cell))))

\* C2, amended: the surrounding whitespace is stripped before parsing and the
\* magnitude is kept, so "12.3" and " 12.3" give 12.3; a cell that holds a "%"
\* anywhere, like "12.3%", gives the missing-number marker, as do "", "abc"
\* and a null cell; the conversion always yields a number or the marker.
C2_Normalization ==
    Normalized =>
        /\ IF cell = NaN THEN parsed = NaN
           ELSE SameNumber(parsed, ValueOf(Strip(cell)))
        /\ (cell # NaN /\ IsIn(cell, "%")) => parsed = NaN
        /\ parsed = NaN \/ (Len(parsed) = 2 /\ parsed[2] > 0)

\* "12.3%" has been converted, to the missing-number marker
C2_Witness ==
    /\ Normalized
    /\ cell = <<"1","2",".","3","%">>
    /\ parsed = NaN

-----------------------------------------------------------------------------
(* Claims about the SLA breach rate and the P0 count, under SpecSla *)

SlaDone == pc \in {"root_cause", "blocked", "summary", "done"}
FlagResolved == Resolved(col.sla_breached_col, df.cols)
DurationsResolved ==
    /\ Resolved(col.resolution_days_col, df.cols)
    /\ Resolved(col.sla_target_col, df.cols)
\* 100 times the share of rows whose flag is one of the true tokens
FlagRate ==
    LET flag == Column(df, col.sla_breached_col)
    IN  Rat(100 * Cardinality({r \in 1..Len(flag) : IsTruthy(flag[r])}), Len(flag))

\* C3 as stated: whenever SLABreached is resolved the breach rate is the mean
\* of the flag over all rows, whether or not Priority is resolved, and the
\* rate is insufficient data only when neither SLABreached nor the pair of
\* resolution days and target days is resolved.
C3_RateWheneverFlagResolved ==
    SlaDone =>
        /\ FlagResolved =>
              /\ sla_breach_rate # None
              /\ SameNumber(sla_breach_rate, FlagRate)
        /\ sla_breach_rate = None => ~FlagResolved /\ ~DurationsResolved

\* the table df with the cell of row r in the column name set to v
WithCell(name, r, v) ==
    [df EXCEPT !.rows[r][IndexIn(df.cols, name)] = v]
DurationTexts == ResolutionCells \cup TargetCells \cup {<<"9">>, NaN}

\* C4: when SLABreached is resolved, the breach rate of a table that differs
\* from the loaded one only in a resolution-days or target-days value is the
\* rate just computed (tables that differ in several such values are joined
\* by a chain of such steps): path (a) is taken, the inputs of path (b) have
\* no influence.
C4_PathPrecedence ==
    (pc = "root_cause" /\ FlagResolved) =>
        \A name \in {col.resolution_days_col, col.sla_target_col} :
            (/\ Resolved(name, df.cols)
             /\ name \notin {col.sla_breached_col, col.priority_col}) =>
                \A r \in 1..Len(df.rows), v \in DurationTexts :
                    SlaBreachRate(WithCell(name, r, v), col) = sla_breach_rate

\* no flag is set although every ticket took longer than its target: the rate
\* is 0, path (b) would have said 100
C4_Witness ==
    /\ pc = "root_cause"
    /\ FlagResolved /\ DurationsResolved /\ Resolved(col.priority_col, df.cols)
    /\ Len(df.rows) = MaxRowsWide
    /\ \A r \in 1..Len(df.rows) :
          /\ Column(df, col.sla_breached_col)[r] = <<"n","o">>
          /\ Column(df, col.resolution_days_col)[r] = <<"3">>
          /\ Column(df, col.sla_target_col)[r] = <<"2">>
    /\ sla_breach_rate = Rat(0, 1)

\* the column name holds no value
NoValue(name) == \A r \in 1..Len(df.rows) : Column(df, name)[r] = NaN

\* C9 as stated: a metric whose required field is unresolved, or whose column
\* holds no non-missing value, reports insufficient data and never a number:
\* the P0 count is then N/A, the breach rate by the flag is then absent.
C9_NoSilentDefault ==
    /\ KeyMetricsDone =>
          ((~Resolved(col.priority_col, df.cols) \/ NoValue(col.priority_col))
              => p0_count = NA)
    /\ SlaDone =>
          /\ (~FlagResolved /\ ~DurationsResolved) => sla_breach_rate = None
          /\ (FlagResolved /\ NoValue(col.sla_breached_col)) => sla_breach_rate = None

-----------------------------------------------------------------------------
(* Claims about the blocked tickets, under SpecBlocked *)

BlockedDone == pc \in {"summary", "done"}
RowsIn(seq) == {seq[i] : i \in 1..Len(seq)}
\* the rows whose status reads "blocked" in any case
PrimaryRows ==
    IF Resolved(col.status_col, df.cols)
    THEN LET status == Column(df, col.status_col)
         IN  {r \in 1..Len(status) :
                 status[r] # NaN /\ Lower(status[r]) = <<"b","l","o","c","k","e","d">>}
    ELSE {}
\* the rows with a blocked reason
FallbackRows ==
    IF Resolved(col.blocked_reason_col, df.cols)
    THEN LET reason == Column(df, col.blocked_reason_col)
         IN  {r \in 1..Len(reason) : reason[r] # NaN}
    ELSE {}

\* C5: the blocked tickets are exactly the rows whose Status is "blocked"
\* (case-insensitively) when there is such a row; only when there is none and
\* BlockedReason is resolved are they exactly the rows with a non-missing
\* BlockedReason; the result never merges the two sets, and lists no row twice.
C5_BlockedTickets ==
    BlockedDone =>
        /\ RowsIn(blocked_df) = IF PrimaryRows # {} THEN PrimaryRows ELSE FallbackRows
        /\ Len(blocked_df) = Cardinality(RowsIn(blocked_df))
        /\ (PrimaryRows # {} /\ ~(FallbackRows \subseteq PrimaryRows))
              => RowsIn(blocked_df) # PrimaryRows \cup FallbackRows

\* no ticket has the status Blocked, three have a reason: exactly those three
C5_Witness ==
    /\ BlockedDone
    /\ Resolved(col.status_col, df.cols)
    /\ PrimaryRows = {}
    /\ FallbackRows = {1, 2, 3}
    /\ blocked_df = <<1, 2, 3>>

-----------------------------------------------------------------------------
(* Claims about the stale tickets, under SpecStale *)

\* the section has run and its instant is still the one in now_utc
StaleDone == pc \in {"sla", "root_cause", "blocked", "summary"}

\* C6: with threshold d and evaluation instant T, a row is in the result if
\* and only if its LastUpdatedAt is a date and T minus it is at least d days;
\* a row with a missing or unparsable date never appears; each row appears
\* once, with its elapsed days, and the rows are in descending order of them.
C6_StaleTickets ==
    StaleDone =>
        IF Resolved(col.last_updated_col, df.cols)
        THEN LET updated == Column(df, col.last_updated_col)
                 at == [r \in 1..Len(updated) |-> to_datetime_safe(updated[r])]
             IN  /\ \A r \in 1..Len(updated) :
                        (\E i \in 1..Len(stale_df) : stale_df[i][1] = r)
                            <=> /\ at[r] # NaN
                                /\ now_utc - at[r][2] >= threshold * SecondsPerDay
                 /\ \A i, j \in 1..Len(stale_df) :
                        i # j => stale_df[i][1] # stale_df[j][1]
                 /\ \A i \in 1..Len(stale_df) :
                        /\ stale_df[i][1] \in 1..Len(updated)
                        /\ stale_df[i][2][1] * SecondsPerDay
                              = (now_utc - at[stale_df[i][1]][2]) * stale_df[i][2][2]
                 /\ \A i, j \in 1..Len(stale_df) :
                        i < j => ~RatLess(stale_df[i][2], stale_df[j][2])
        ELSE stale_df = <<>>

\* threshold 2 days at instant T = 2 days: the ticket updated exactly 2 days
\* before T is listed, the one updated 1.5 days before T and the one without
\* a date are not
C6_Witness ==
    /\ StaleDone
    /\ Resolved(col.last_updated_col, df.cols)
    /\ Column(df, col.last_updated_col) = << <<"T","0">>, <<"T","1">>, NaN >>
    /\ now_utc = 2 * SecondsPerDay
    /\ threshold = 2
    /\ Len(stale_df) = 1
    /\ stale_df[1][1] = 1

-----------------------------------------------------------------------------
(* Claims about the executive summary, under SpecSummary *)

SummaryGenerated == pc \in {"done", "crashed"} /\ clicked
Neutral == {"insufficient", "missing"}
HasEntries(table) == table # Unset /\ table # <<>>

\* C8: for every table, generating the summary yields exactly four findings,
\* in the order delay bottleneck, queue bottleneck, SLA risk, primary root
\* cause; a finding whose metric is insufficient is a neutral line in the
\* same place; a delay, queue or root-cause finding names the top entry of
\* the metric its section computed.
C8_SummaryShape ==
    SummaryGenerated =>
        /\ pc = "done"
        /\ Len(bullets) = 4
        /\ [i \in 1..4 |-> bullets[i][1]] = <<"delay", "queue", "sla", "root_cause">>
        /\ IF HasEntries(perf_df)
           THEN bullets[1] = <<"delay", "top", perf_df[1][1], Format1f(perf_df[1][2])>>
           ELSE Len(bullets[1]) = 2 /\ bullets[1][2] \in Neutral
        /\ IF HasEntries(q_df)
           THEN /\ Len(bullets[2]) = 4
                /\ bullets[2][2] = "top"
                /\ bullets[2][3] = q_df[1][1]
           ELSE Len(bullets[2]) = 2 /\ bullets[2][2] \in Neutral
        /\ IF sla_breach_rate # None
           THEN Len(bullets[3]) = 3 /\ bullets[3][2] = "rate"
           ELSE Len(bullets[3]) = 2 /\ bullets[3][2] \in Neutral
        /\ IF HasEntries(rc_df)
           THEN bullets[4] = <<"root_cause", "top", rc_df[1][1]>>
           ELSE Len(bullets[4]) = 2 /\ bullets[4][2] \in Neutral

\* a table without the delay columns: the first finding is the neutral line,
\* the queue finding is second and names one of two statuses
C8_Witness ==
    /\ SummaryGenerated
    /\ pc = "done"
    /\ Len(bullets) = 4
    /\ bullets[1] = <<"delay", "missing">>
    /\ bullets[2][2] = "top"
    /\ Len(q_df) = 2
    /\ bullets[4] = <<"root_cause", "missing">>

-----------------------------------------------------------------------------
(* Claims about the column detection, under SpecResolve *)

Detected == pc # "detect"

\* C10 as stated: after the detection no column is the resolution of more
\* than one field.
C10_ResolutionInjective ==
    Detected =>
        \A f, g \in Fields :
            (f # g /\ col[f] # None) => col[f] # col[g]

\* C11: for every header and every field the detection yields either the
\* absent marker or a name that is literally one of the table's columns, and
\* it yields a value for each of the fourteen fields whatever the header is.
C11_ResolvedColumnExists ==
    Detected =>
        /\ DOMAIN col = Fields
        /\ \A f \in Fields : col[f] = None \/ InColumns(col[f], df.cols)

\* a header of a column no keyword matches and a column one keyword matches
\* as a substring: one field is resolved to that column, the others are absent
C11_Witness ==
    /\ Detected
    /\ df.cols = <<Notes_name, Updated_name>>
    /\ col.last_updated_col = Updated_name
    /\ \A f \in Fields \ {"last_updated_col"} : col[f] = None

\* the resolution as the two passes are stated: a column equal to an alias,
\* case ignored, the aliases taken in list order; failing that the first
\* column in table order that contains any alias, case ignored
TwoPassResolution(cols, aliases) ==
    LET lc == [c \in 1..Len(cols) |-> Lower(cols[c])]
        la == [k \in 1..Len(aliases) |-> Lower(aliases[k])]
        exact == {k \in 1..Len(la) : \E c \in 1..Len(lc) : lc[c] = la[k]}
        containing ==
            {c \in 1..Len(lc) : \E k \in 1..Len(la) : Contains(la[k], lc[c])}
    IN  IF exact # {}
        THEN cols[Min({c \in 1..Len(lc) : lc[c] = la[Min(exact)]})]
        ELSE IF containing # {} THEN cols[Min(containing)]
        ELSE None

\* the aliases of each field: the name the code tests first, then its keywords
AliasesOf ==
    [ delay_col           |-> delay_kw,
      priority_col        |-> <<Priority_name>> \o priority_kw,
      role_col            |-> <<Role_name>> \o role_kw,
      status_col          |-> <<Status_Current_name>> \o status_kw,
      last_updated_col    |-> <<Last_Updated_Date_name>> \o last_updated_kw,
      status_entered_col  |-> <<Status_Entered_Date_name>> \o status_entered_kw,
      issue_key_col       |-> <<Issue_Key_name>> \o issue_key_kw,
      summary_col         |-> <<Summary_name>> \o summary_kw,
      assignee_col        |-> <<Assignee_name>> \o assignee_kw,
      blocked_reason_col  |-> <<Blocked_Reason_name>> \o blocked_reason_kw,
      root_cause_col      |-> <<Root_Cause_Category_name>> \o root_cause_kw,
      sla_breached_col    |-> <<SLA_Breached_name>> \o sla_breached_kw,
      resolution_days_col |-> <<Resolution_Days_name>> \o resolution_days_kw,
      sla_target_col      |-> <<SLA_Target_Days_name>> \o sla_target_kw ]

\* C12 as stated: every field is resolved to the column the exact pass
\* finds, case ignored, and only when there is none to the first column in
\* table order that contains one of the field's aliases.
C12_ExactThenSubstring ==
    Detected =>
        \A f \in Fields : col[f] = TwoPassResolution(df.cols, AliasesOf[f])

-----------------------------------------------------------------------------
(* Claim about the evaluation instant, under SpecInstant: every table has   *)
(* the status, entered-date and last-updated columns, so the queue section  *)
(* has read the clock whenever a later section runs                         *)

AfterQueue == pc \in {"stale", "sla", "root_cause", "blocked", "summary"}

\* C13 as stated: within one run of the script the instant the queue times
\* were measured against is the instant every later computation of the run
\* measures against, so no step after the queue section changes it.
C13_SingleInstant ==
    [][AfterQueue => now_utc' = now_utc]_vars

====
